---------------------------- MODULE Spec2Model ----------------------------
(***************************************************************************)
(* Watchlist reconciliation of the anime tracker: the remote list read     *)
(* (getWatchlist, src/services/anilistService.ts), the background sync,    *)
(* the initial merge and the per-item handlers (src/App.tsx).              *)
(*                                                                         *)
(* An anime is modelled by its catalog identifier; a watchlist item is the *)
(* record [mediaListId, anime, status, watchedEpisodes] of src/types.ts.   *)
(* The JavaScript value null is the string "null"; an entry whose media is *)
(* missing has media = NoMedia.                                            *)
(***************************************************************************)
EXTENDS Integers, Sequences, FiniteSets, TLC

\* ------------------------------------------------------------------ bounds
\* Longest list collection the remote API returns in GetWatchlistSpec.
MaxLists == 3

\* Catalog identifiers that occur in the modelled lists.
AnimeIds == {1, 2}

\* media of a malformed entry (entry.media is null).
NoMedia == 0

\* ------------------------------------------------------------ status types
WatchStatus == {"WATCHING", "COMPLETED", "PLAN_TO_WATCH", "DROPPED", "PAUSED"}

\* The MediaListStatus values the service knows, "UNKNOWN" for any other
\* string the API may send and "null" for a list without a status.
KnownApiStatus == {"CURRENT", "REPEATING", "PAUSED", "PLANNING", "COMPLETED", "DROPPED"}
ApiStatus == KnownApiStatus \cup {"UNKNOWN", "null"}

mapApiStatusToWatchStatus(apiStatus) ==
    CASE apiStatus = "CURRENT"   -> "WATCHING"
      [] apiStatus = "REPEATING" -> "WATCHING"
      [] apiStatus = "PLANNING"  -> "PLAN_TO_WATCH"
      [] apiStatus = "COMPLETED" -> "COMPLETED"
      [] apiStatus = "DROPPED"   -> "DROPPED"
      [] apiStatus = "PAUSED"    -> "PAUSED"
      [] OTHER                   -> "null"

mapWatchStatusToApiStatus(status) ==
    CASE status = "WATCHING"      -> "CURRENT"
      [] status = "PLAN_TO_WATCH" -> "PLANNING"
      [] status = "COMPLETED"     -> "COMPLETED"
      [] status = "DROPPED"       -> "DROPPED"
      [] status = "PAUSED"        -> "PAUSED"

\* statusPriority[s] || 99
statusPriority(s) ==
    CASE s = "CURRENT"   -> 1
      [] s = "REPEATING" -> 2
      [] s = "PAUSED"    -> 3
      [] s = "PLANNING"  -> 4
      [] s = "COMPLETED" -> 5
      [] s = "DROPPED"   -> 6
      [] OTHER           -> 99

\* The comparator handed to lists.sort.
compareLists(a, b) ==
    IF a.status = "null" \/ b.status = "null" THEN 0
    ELSE statusPriority(a.status) - statusPriority(b.status)

\* -------------------------------------------------- Array.prototype.sort
\* The comparator is not a consistent one (a list without a status compares
\* equal to every list), so the order lists.sort leaves is the engine's.
\* Two engines are modelled: insertion sort from the right (SpiderMonkey's
\* short-array path) and V8's run detection followed by binary insertion.
Engines == {"insertion", "v8"}

InsertFromRight(s, x) ==
    LET le == {j \in 1..Len(s) : compareLists(s[j], x) <= 0}
        j  == IF le = {} THEN 0 ELSE CHOOSE m \in le : \A k \in le : k <= m
    IN  SubSeq(s, 1, j) \o <<x>> \o SubSeq(s, j + 1, Len(s))

RECURSIVE InsertionSort(_, _)
InsertionSort(s, done) ==
    IF Len(s) = 0 THEN done
    ELSE InsertionSort(Tail(s), InsertFromRight(done, Head(s)))

Reverse(s) == [i \in 1..Len(s) |-> s[Len(s) + 1 - i]]

\* Indices are 0-based as in the engine; a[i + 1] is its element i.
RECURSIVE RunLength(_, _, _)
RunLength(a, idx, desc) ==
    IF idx >= Len(a) THEN idx
    ELSE LET order == compareLists(a[idx + 1], a[idx])
         IN  IF (desc /\ order >= 0) \/ (~desc /\ order < 0) THEN idx
             ELSE RunLength(a, idx + 1, desc)

RECURSIVE BinaryPosition(_, _, _, _)
BinaryPosition(a, pivot, left, right) ==
    IF left >= right THEN left
    ELSE LET mid == left + ((right - left) \div 2)
         IN  IF compareLists(pivot, a[mid + 1]) < 0
             THEN BinaryPosition(a, pivot, left, mid)
             ELSE BinaryPosition(a, pivot, mid + 1, right)

RECURSIVE BinaryInsertionSort(_, _)
BinaryInsertionSort(a, start) ==
    IF start >= Len(a) THEN a
    ELSE LET pivot == a[start + 1]
             left  == BinaryPosition(a, pivot, 0, start)
             moved == SubSeq(a, 1, left) \o <<pivot>> \o SubSeq(a, left + 1, start)
                      \o SubSeq(a, start + 2, Len(a))
         IN  BinaryInsertionSort(moved, start + 1)

V8Sort(a) ==
    IF Len(a) < 2 THEN a
    ELSE LET desc == compareLists(a[2], a[1]) < 0
             run  == RunLength(a, 2, desc)
             made == IF desc THEN Reverse(SubSeq(a, 1, run)) \o SubSeq(a, run + 1, Len(a))
                     ELSE a
         IN  BinaryInsertionSort(made, run)

SortLists(lists, engine) ==
    IF engine = "v8" THEN V8Sort(lists) ELSE InsertionSort(lists, <<>>)

\* ------------------------------------------------------------ getWatchlist
\* The inner loop without the seenAnimeIds test.
RECURSIVE AddEntries_NoSeenCheck(_, _, _)
AddEntries_NoSeenCheck(entries, mappedStatus, acc) ==
    IF Len(entries) = 0 THEN acc
    ELSE LET entry == Head(entries)
             next  == IF entry.media = NoMedia THEN acc
                      ELSE [items |-> Append(acc.items,
                                       [mediaListId     |-> entry.id,
                                        anime           |-> entry.media,
                                        status          |-> mappedStatus,
                                        watchedEpisodes |-> entry.progress]),
                            seen  |-> acc.seen \cup {entry.media}]
         IN  AddEntries_NoSeenCheck(Tail(entries), mappedStatus, next)

\* One pass over a list's entries: [items, seen] after the inner loop.
RECURSIVE AddEntries(_, _, _)
AddEntries(entries, mappedStatus, acc) ==
    IF Len(entries) = 0 THEN acc
    ELSE LET entry == Head(entries)
             next  == IF entry.media = NoMedia \/ entry.media \in acc.seen THEN acc
                      ELSE [items |-> Append(acc.items,
                                       [mediaListId     |-> entry.id,
                                        anime           |-> entry.media,
                                        status          |-> mappedStatus,
                                        watchedEpisodes |-> entry.progress]),
                            seen  |-> acc.seen \cup {entry.media}]
         IN  AddEntries(Tail(entries), mappedStatus, next)

\* Which lists the outer loop reads.
ListIsRead(list) ==
    /\ ~list.isCustomList
    /\ list.status # "null"
    /\ mapApiStatusToWatchStatus(list.status) # "null"

RECURSIVE AddLists(_, _)
AddLists(lists, acc) ==
    IF Len(lists) = 0 THEN acc
    ELSE LET list == Head(lists)
             next == IF ListIsRead(list)
                     THEN AddEntries(list.entries, mapApiStatusToWatchStatus(list.status), acc)
                     ELSE acc
         IN  AddLists(Tail(lists), next)

\* getWatchlist on the list collection the API returned.
getWatchlist(lists, engine) ==
    AddLists(SortLists(lists, engine), [items |-> <<>>, seen |-> {}]).items

\* -------------------------------------------------- inputs of getWatchlist
Entry(a) == [id |-> 100 + a, media |-> a, progress |-> a]
Malformed == [id |-> 100, media |-> NoMedia, progress |-> 0]

EntryChoices ==
    { <<Entry(1)>>, <<Entry(2), Malformed, Entry(2)>>, <<Entry(1), Entry(2)>> }

ListKinds ==
    [isCustomList : {FALSE}, status : ApiStatus]
        \cup [isCustomList : {TRUE}, status : {"null"}]

RemoteLists ==
    { [isCustomList |-> k.isCustomList, status |-> k.status, entries |-> e] :
        k \in ListKinds, e \in EntryChoices }

ListCollections == UNION { [1..n -> RemoteLists] : n \in 0..MaxLists }

\* --------------------------------------------------- the two list sources
\* A field a document or entry does not have.
Undefined == "undefined"
NoId == 0

\* A watchlist document that does not exist, and a media without an entry.
NoDoc == [mediaListId |-> NoId, anime |-> NoMedia, status |-> Undefined,
          watchedEpisodes |-> -1]
NoEntry == [id |-> NoId, status |-> "null", progress |-> 0]

\* The entry AniList keeps for media a (one per user and media).
RemoteEntry(a, apiStatus, progress) ==
    [id |-> 100 + a, status |-> apiStatus, progress |-> progress]

\* An item added while no AniList account was linked: no mediaListId.
LocalOnlyItem(a, status, watched) ==
    [mediaListId |-> NoId, anime |-> a, status |-> status, watchedEpisodes |-> watched]

StoreIds(st) == {a \in AnimeIds : st[a] # NoDoc}
RemoteIds(rm) == {a \in AnimeIds : rm[a] # NoEntry}
ItemIds(items) == {items[k].anime : k \in 1..Len(items)}

RECURSIVE SetToSeq(_)
SetToSeq(S) ==
    IF S = {} THEN <<>>
    ELSE LET m == CHOOSE x \in S : \A y \in S : x <= y
         IN  <<m>> \o SetToSeq(S \ {m})

\* The order in which the API sends the status lists (not the priority order).
ApiListOrder == <<"DROPPED", "COMPLETED", "PLANNING", "PAUSED", "REPEATING", "CURRENT">>

RECURSIVE CollectionFrom(_, _)
CollectionFrom(rm, k) ==
    IF k > Len(ApiListOrder) THEN <<>>
    ELSE LET ids  == {a \in RemoteIds(rm) : rm[a].status = ApiListOrder[k]}
             list == [isCustomList |-> FALSE, status |-> ApiListOrder[k],
                      entries |-> [j \in 1..Cardinality(ids) |->
                                     [id       |-> rm[SetToSeq(ids)[j]].id,
                                      media    |-> SetToSeq(ids)[j],
                                      progress |-> rm[SetToSeq(ids)[j]].progress]]]
         IN  (IF ids = {} THEN <<>> ELSE <<list>>) \o CollectionFrom(rm, k + 1)

\* MediaListCollection.lists for the entries AniList holds.
RemoteCollection(rm) == CollectionFrom(rm, 1)

\* ------------------------------------------------------------------ clock
DEBOUNCE_MS == 60000
TickMs == DEBOUNCE_MS \div 2

\* Ticks of TickMs the clock makes; Date.now() at mount is StartTime, further
\* from the initial lastSyncTimestamp (0) than the debounce.
MaxTicks == 2
StartTime == 2 * DEBOUNCE_MS
Times == {StartTime + k * TickMs : k \in 0..MaxTicks}

\* The debounce with the window taken in seconds.
Debounced_Seconds(t, last) == t - last < DEBOUNCE_MS \div 1000

\* Date.now() - lastSyncTimestamp.current < 60000
Debounced(t, last) == t - last < DEBOUNCE_MS

\* ------------------------------------------------ calls and batched writes
\* Calls of syncAniListWatchlist in flight that Spec follows at once;
\* SyncFlagsSpec follows one more.
MaxSyncCalls == 1

\* Edits on AniList from outside the app the model follows.
MaxRemoteEdits == 1

\* What the step just taken did, when it was a commit of a merge, a call
\* the debounce turned away, a call that returned at its guards or the
\* catch of a handler: the anime of the handler, the items fetched and the
\* identifiers AniList held then, the local list the merge had, the batch,
\* the store before it.
NoStep == [kind |-> "none", anime |-> NoMedia, items |-> <<>>, remoteIds |-> {}, sets |-> <<>>,
           local |-> [a \in AnimeIds |-> NoDoc], deletes |-> {},
           before |-> [a \in AnimeIds |-> NoDoc], quiet |-> FALSE, second |-> FALSE]

\* The batch with the test of the delete loop inverted.
SyncBatch_DeleteHeld(anilistItems, snapIds) ==
    [sets    |-> anilistItems,
     deletes |-> {a \in snapIds : a \in ItemIds(anilistItems)}]

\* The writes syncAniListWatchlist puts in its batch: a set per remote item,
\* then a delete per snapshot document the remote list does not hold.
SyncBatch(anilistItems, snapIds) ==
    [sets    |-> anilistItems,
     deletes |-> {a \in snapIds : ~(a \in ItemIds(anilistItems))}]

\* Sets that leave a document that exists as it is.
RECURSIVE ApplySets_KeepExisting(_, _)
ApplySets_KeepExisting(st, items) ==
    IF Len(items) = 0 THEN st
    ELSE ApplySets_KeepExisting(
            IF st[Head(items).anime] # NoDoc THEN st
            ELSE [st EXCEPT ![Head(items).anime] = Head(items)], Tail(items))

\* batch.commit(): the sets overwrite whole documents, then the deletes.
RECURSIVE ApplySets(_, _)
ApplySets(st, items) ==
    IF Len(items) = 0 THEN st
    ELSE ApplySets([st EXCEPT ![Head(items).anime] = Head(items)], Tail(items))

\* A commit that loses the deletes of the batch.
ApplyBatch_NoDeletes(st, batch) == ApplySets(st, batch.sets)

ApplyBatch(st, batch) ==
    [a \in AnimeIds |->
        IF a \in batch.deletes THEN NoDoc ELSE ApplySets(st, batch.sets)[a]]

\* Handler calls the model follows.
MaxOps == 2

\* The episode counts an anime of the catalogue may have, besides none.
MaxEpisodes == 2

\* The changes handleUpdateWatchedEpisodes is called with.
MaxChange == 2
Changes == (0 - MaxChange)..MaxChange

\* anime.episodes of an anime whose episode count AniList does not know (null).
NoEpisodes == -1

\* The catalogue entries: anime 1 has two episodes, the count of anime 2 is
\* unknown.
Catalogue == [a \in AnimeIds |-> IF a = 1 THEN 2 ELSE NoEpisodes]

\* The Sync form at rest: nothing awaited, nothing merged yet.  With it, what
\* the provider keeps of linking: the anilistToken field of the user document
\* (storedToken), its error state (authError), and for the last call of
\* linkAnilist how getViewerProfile answered (verified: "none" before it
\* did, "ok", "rejected") and how the call ended (returned: "none" while it
\* runs, "null", "profile", "thrown").
NoLink == [pc |-> "idle", local |-> <<>>, items |-> <<>>, remoteIds |-> {}, queue |-> <<>>,
           toUpload |-> {}, uploaded |-> {}, failed |-> {},
           storedToken |-> "null", authError |-> "null", verified |-> "none",
           returned |-> "none"]

\* The documents of the watchlist collection as the snapshot listener hands
\* them to setWatchlist, in document-id order.
Watchlist(st) == [k \in 1..Cardinality(StoreIds(st)) |-> st[SetToSeq(StoreIds(st))[k]]]

\* The list handed to handleInitialSync, by anime identifier.
ListAsStore(list) ==
    [a \in AnimeIds |->
        IF \E k \in 1..Len(list) : list[k].anime = a
        THEN list[CHOOSE k \in 1..Len(list) : list[k].anime = a]
        ELSE NoDoc]

\* firestoreWatchlist.filter(item => !anilistMap.has(item.anime.id))
RECURSIVE itemsToUpload(_, _)
itemsToUpload(firestoreWatchlist, anilistWatchlist) ==
    IF Len(firestoreWatchlist) = 0 THEN <<>>
    ELSE (IF Head(firestoreWatchlist).anime \in ItemIds(anilistWatchlist)
          THEN <<>> ELSE <<Head(firestoreWatchlist)>>)
         \o itemsToUpload(Tail(firestoreWatchlist), anilistWatchlist)

VARIABLES
    gwLists,    \* data.MediaListCollection.lists as the API returned it
    gwPc,       \* "input" before getWatchlist ran, "returned" after
    gwResult,   \* the array getWatchlist returned
    gwEngine    \* the engine that ran lists.sort

gwVars == <<gwLists, gwPc, gwResult, gwEngine>>

VARIABLES
    now,                 \* Date.now()
    lastSyncTimestamp,   \* lastSyncTimestamp.current
    store,               \* users/{uid}/watchlist in Firestore, by document id
    remote,              \* the user's media list entries on AniList, by media id
    anilistProfile,      \* AuthContext anilistProfile: "null" or "viewer"
    anilistToken,        \* userProfile.anilistToken: "null" or "token"
    isBackgroundSyncing, \* React state of App
    syncError,           \* React state of App: "null" or the kind of message
    rendered,            \* the state the last render's closures captured
    syncs,               \* the calls of syncAniListWatchlist in flight, oldest first
    syncCap,             \* how many of them the specification follows at once
    lastStep,          \* the batch just committed (NoStep in any other state)
    prevItems,           \* items of the last background commit, while undisturbed
    commitTime,          \* when the last background commit succeeded, -1 before
    failPending,         \* a sync failed and no external trigger came since
    remoteEdits,         \* edits made on AniList outside the app, counted
    link,                \* the Sync form's handleProceedWithSync and what it awaits
    isInitialSyncing     \* isInitialSyncing.current

VARIABLES
    watchlist,    \* React state of App: what the snapshot listener last delivered
    cards,        \* the watchlist and syncingIds the cards were last rendered with
    syncingIds,   \* React state of App
    ops,          \* the add, update and remove handlers awaiting a request
    opsStarted,   \* handler calls so far
    opCap,        \* how many handlers the specification follows at once
    latest,       \* per anime, the kind of the last add or remove called
    episodes      \* per anime, anime.episodes of the catalogue

handlerVars == <<watchlist, cards, syncingIds, ops, opsStarted, opCap, latest, episodes>>

appVars == <<now, lastSyncTimestamp, store, remote, anilistProfile, anilistToken,
             isBackgroundSyncing, syncError, rendered, syncs, syncCap,
             lastStep, prevItems, commitTime, failPending, remoteEdits,
             link, isInitialSyncing>>

appVars_but_lastStep ==
    <<now, lastSyncTimestamp, store, remote, anilistProfile, anilistToken,
      isBackgroundSyncing, syncError, rendered, syncs, syncCap, prevItems,
      commitTime, failPending, remoteEdits, link, isInitialSyncing>>

\* The friend requests and friend edges of the document store, and the calls
\* of respondToFriendRequest and removeFriend in flight.
VARIABLES social

vars == <<gwVars, appVars, handlerVars, social>>

\* The signed-in users.
Uids == {"u1", "u2", "u3"}

\* The two versions of the provider: friend edges as documents of
\* users/{uid}/friends, and as documents of the collection friendships.
Versions == {"friends", "friendships"}

\* No request, no edge, no call.
NoSocial == [version        |-> "friends",
             friendRequests |-> {},
             friends        |-> [u \in Uids |-> {}],
             friendships    |-> {},
             calls          |-> {}]

FriendsIdle == social = NoSocial

\* No handler has been called and nothing is on screen.
HandlersIdle ==
    /\ watchlist = <<>>
    /\ cards = [watchlist |-> <<>>, syncingIds |-> {}]
    /\ syncingIds = {}
    /\ ops = <<>>
    /\ opsStarted = 0
    /\ opCap = MaxOps
    /\ latest = [a \in AnimeIds |-> "none"]
    /\ episodes = Catalogue

\* The application at rest, for the specification of getWatchlist alone.
AppIdle ==
    /\ now = StartTime
    /\ lastSyncTimestamp = 0
    /\ store = [a \in AnimeIds |-> NoDoc]
    /\ remote = [a \in AnimeIds |-> NoEntry]
    /\ anilistProfile = "null"
    /\ anilistToken = "null"
    /\ isBackgroundSyncing = FALSE
    /\ syncError = "null"
    /\ rendered = [isBackgroundSyncing |-> FALSE, anilistProfile |-> "null",
                   anilistToken |-> "null"]
    /\ syncs = <<>>
    /\ syncCap = MaxSyncCalls
    /\ lastStep = NoStep
    /\ prevItems = [valid |-> FALSE, items |-> <<>>]
    /\ commitTime = -1
    /\ failPending = FALSE
    /\ remoteEdits = 0
    /\ link = [NoLink EXCEPT !.storedToken = anilistToken]
    /\ isInitialSyncing = FALSE
    /\ HandlersIdle

GwIdle ==
    /\ gwLists = <<>>
    /\ gwPc = "returned"
    /\ gwResult = <<>>
    /\ gwEngine = "none"

GwInit ==
    /\ gwLists \in ListCollections
    /\ gwPc = "input"
    /\ gwResult = <<>>
    /\ gwEngine = "none"
    /\ AppIdle
    /\ FriendsIdle

GwCall ==
    /\ gwPc = "input"
    /\ gwPc' = "returned"
    /\ \E engine \in Engines :
         /\ gwEngine' = engine
         /\ gwResult' = getWatchlist(gwLists, engine)
    /\ UNCHANGED <<gwLists, social, appVars, handlerVars>>

GwNext == GwCall

GetWatchlistSpec == GwInit /\ [][GwNext]_vars

\* ------------------------------------------------------- background sync
\* What a closure of syncAniListWatchlist reads: the values of the render
\* that created it (useCallback deps: userProfile, anilistProfile,
\* isBackgroundSyncing).
Current == [isBackgroundSyncing |-> isBackgroundSyncing,
            anilistProfile      |-> anilistProfile,
            anilistToken        |-> anilistToken]

\* The two early returns of syncAniListWatchlist.
SyncReturnsEarly(cl) ==
    \/ cl.isBackgroundSyncing
    \/ Debounced(now, lastSyncTimestamp)
    \/ cl.anilistToken = "null"
    \/ cl.anilistProfile = "null"

\* A call of syncAniListWatchlist through the closure cl, up to its first
\* await: the guards, the two state updates and the request to AniList.
syncAniListWatchlist(cl, afterFail) ==
    IF SyncReturnsEarly(cl)
    THEN /\ lastStep' = IF Debounced(now, lastSyncTimestamp)
                        THEN [NoStep EXCEPT !.kind = "debounced"] ELSE NoStep
         /\ UNCHANGED <<isBackgroundSyncing, syncError, syncs>>
    ELSE /\ Len(syncs) < syncCap
         /\ syncs' = Append(syncs,
                [pc |-> "getWatchlist", items |-> <<>>, remoteIds |-> {},
                 snapshot |-> [a \in AnimeIds |-> NoDoc],
                 quiet |-> FALSE, afterFail |-> afterFail])
         /\ isBackgroundSyncing' = TRUE
         /\ syncError' = "null"
         /\ lastStep' = NoStep

\* The visibilitychange listener, with the tab visible.
Visibility ==
    /\ syncAniListWatchlist(rendered, FALSE)
    /\ failPending' = FALSE
    /\ UNCHANGED <<gwVars, social, handlerVars, syncCap, link, isInitialSyncing, now, lastSyncTimestamp, store, remote, anilistProfile,
                   anilistToken, rendered, prevItems, commitTime, remoteEdits>>

\* The 5-minute interval, with the tab visible.
Interval ==
    /\ syncAniListWatchlist(rendered, FALSE)
    /\ failPending' = FALSE
    /\ UNCHANGED <<gwVars, social, handlerVars, syncCap, link, isInitialSyncing, now, lastSyncTimestamp, store, remote, anilistProfile,
                   anilistToken, rendered, prevItems, commitTime, remoteEdits>>

\* React renders with the present state and runs the effects whose deps
\* changed: the listeners take the new closure, and the effect on
\* [anilistProfile, syncAniListWatchlist] calls the new closure.
Render ==
    /\ rendered # Current
    /\ rendered' = Current
    /\ LET profileChanged == \/ rendered.anilistProfile # anilistProfile
                              \/ rendered.anilistToken # anilistToken
       IN  /\ IF anilistProfile # "null"
              THEN syncAniListWatchlist(Current, failPending /\ ~profileChanged)
              ELSE /\ lastStep' = NoStep
                   /\ UNCHANGED <<isBackgroundSyncing, syncError, syncs>>
           /\ failPending' = (failPending /\ ~profileChanged)
    /\ UNCHANGED <<gwVars, social, handlerVars, syncCap, link, isInitialSyncing, now, lastSyncTimestamp, store, remote, anilistProfile,
                   anilistToken, prevItems, commitTime, remoteEdits>>

\* The auth listener verified the stored token: setAnilistProfile(viewer).
VerifyStoredToken ==
    /\ anilistProfile = "null"
    /\ anilistToken # "null"
    /\ anilistProfile' = "viewer"
    /\ lastStep' = NoStep
    /\ UNCHANGED <<gwVars, social, handlerVars, syncCap, link, isInitialSyncing, now, lastSyncTimestamp, store, remote, anilistToken,
                   isBackgroundSyncing, syncError, rendered, syncs, prevItems,
                   commitTime, failPending, remoteEdits>>

\* ---------------------------------------------------------------- friends
\* Calls of respondToFriendRequest and removeFriend awaited at one time.
MaxFriendCalls == 2

\* friendshipId: the two uids sorted and joined.
UidRank == [u \in Uids |-> IF u = "u1" THEN 1 ELSE IF u = "u2" THEN 2 ELSE 3]
FriendshipId(u, v) == IF UidRank[u] <= UidRank[v] THEN <<u, v>> ELSE <<v, u>>

\* The batch of respondToFriendRequest with the set for the other user left
\* out.
AcceptEdges_OneSided(friends, uid, fromUid) ==
    [friends EXCEPT ![uid] = @ \cup {fromUid}]

\* The batch of respondToFriendRequest: a document for the sender under the
\* user and one for the user under the sender, committed together.
AcceptEdges(friends, uid, fromUid) ==
    [friends EXCEPT ![uid] = @ \cup {fromUid}, ![fromUid] = @ \cup {uid}]

\* The batch of removeFriend: the two documents deleted together.
RemoveEdges(friends, uid, friendUid) ==
    [friends EXCEPT ![uid] = @ \ {friendUid}, ![friendUid] = @ \ {uid}]

\* setDoc of the friendship document: one document per friendshipId.
AcceptFriendship(friendships, uid, fromUid) ==
    {d \in friendships : d.id # FriendshipId(uid, fromUid)}
        \cup {[id |-> FriendshipId(uid, fromUid), uids |-> <<uid, fromUid>>]}

\* deleteDoc of the friendship document.
RemoveFriendship(friendships, friendshipId) ==
    {d \in friendships : d.id # friendshipId}

\* The friends list the snapshot listener gives user uid: the documents of
\* users/{uid}/friends, or of each friendship that contains uid the first
\* uid that is not the user's own.
FriendsOf(uid) ==
    IF social.version = "friends" THEN social.friends[uid]
    ELSE {IF d.uids[1] # uid THEN d.uids[1] ELSE d.uids[2] :
            d \in {f \in social.friendships : \E k \in 1..2 : f.uids[k] = uid}}

\* respondToFriendRequest up to the await after deleteDoc: the request is
\* deleted whatever the answer, and an acceptance goes on to write the edge.
respondToFriendRequest(uid, request, accept) ==
    /\ request \in social.friendRequests
    /\ request.toUid = uid
    /\ Cardinality(social.calls) < MaxFriendCalls
    /\ social' = [social EXCEPT
                    !.friendRequests = @ \ {request},
                    !.calls = IF accept
                              THEN @ \cup {[kind |-> "accept", uid |-> uid,
                                            other |-> request.fromUid]}
                              ELSE @]
    /\ UNCHANGED <<gwVars, appVars, handlerVars>>

\* removeFriend up to its await, for a friend of the list on screen.
removeFriend(uid, friendUid) ==
    /\ friendUid \in FriendsOf(uid)
    /\ Cardinality(social.calls) < MaxFriendCalls
    /\ social' = [social EXCEPT
                    !.calls = @ \cup {[kind |-> "remove", uid |-> uid,
                                       other |-> friendUid]}]
    /\ UNCHANGED <<gwVars, appVars, handlerVars>>

\* The write of an acceptance is committed.
AcceptCommit(call) ==
    /\ call \in social.calls
    /\ call.kind = "accept"
    /\ social' = [social EXCEPT
                    !.calls = @ \ {call},
                    !.friends = IF social.version = "friends"
                                THEN AcceptEdges(@, call.uid, call.other) ELSE @,
                    !.friendships = IF social.version = "friendships"
                                    THEN AcceptFriendship(@, call.uid, call.other)
                                    ELSE @]
    /\ UNCHANGED <<gwVars, appVars, handlerVars>>

\* The write of a removal is committed.
RemoveCommit(call) ==
    /\ call \in social.calls
    /\ call.kind = "remove"
    /\ social' = [social EXCEPT
                    !.calls = @ \ {call},
                    !.friends = IF social.version = "friends"
                                THEN RemoveEdges(@, call.uid, call.other) ELSE @,
                    !.friendships = IF social.version = "friendships"
                                    THEN RemoveFriendship(@, FriendshipId(call.uid, call.other))
                                    ELSE @]
    /\ UNCHANGED <<gwVars, appVars, handlerVars>>

\* The write of a call is rejected: a batch writes nothing, the promise
\* rejects and the call ends.
FriendWriteFails(call) ==
    /\ call \in social.calls
    /\ social' = [social EXCEPT !.calls = @ \ {call}]
    /\ UNCHANGED <<gwVars, appVars, handlerVars>>

\* The calls in flight without call i.
Without(calls, i) == SubSeq(calls, 1, i - 1) \o SubSeq(calls, i + 1, Len(calls))

SyncCallIds == 1..Len(syncs)

\* The batch call i had built when its request rejected: empty before the
\* commit was requested.
FailedBatch(call) ==
    IF call.pc = "commit" THEN SyncBatch(call.items, StoreIds(call.snapshot))
    ELSE [sets |-> <<>>, deletes |-> {}]

\* A rejected commit that leaves the sets of its batch in the store.
SyncFails_SetsApplied(i) ==
    /\ syncError' = "Auto-sync failed"
    /\ isBackgroundSyncing' = FALSE
    /\ syncs' = Without(syncs, i)
    /\ failPending' = TRUE
    /\ store' = ApplySets(store, FailedBatch(syncs[i]).sets)
    /\ lastStep' = [NoStep EXCEPT !.kind = "syncFailed",
                                  !.sets = FailedBatch(syncs[i]).sets,
                                  !.deletes = FailedBatch(syncs[i]).deletes]
    /\ UNCHANGED <<gwVars, social, handlerVars, syncCap, link, isInitialSyncing, now, lastSyncTimestamp, remote, anilistProfile,
                   anilistToken, rendered, prevItems, commitTime, remoteEdits>>

\* catch and finally of syncAniListWatchlist: a batch whose commit rejected
\* has written nothing.
SyncFails(i) ==
    /\ syncError' = "Auto-sync failed"
    /\ isBackgroundSyncing' = FALSE
    /\ syncs' = Without(syncs, i)
    /\ failPending' = TRUE
    /\ lastStep' = [NoStep EXCEPT !.kind = "syncFailed",
                                  !.sets = FailedBatch(syncs[i]).sets,
                                  !.deletes = FailedBatch(syncs[i]).deletes]
    /\ UNCHANGED <<gwVars, social, handlerVars, syncCap, link, isInitialSyncing, now, lastSyncTimestamp, store, remote, anilistProfile,
                   anilistToken, rendered, prevItems, commitTime, remoteEdits>>

\* getWatchlist resolved: the items are kept and getDocs is requested.
SyncFetchOk(i) ==
    /\ syncs[i].pc = "getWatchlist"
    /\ \E engine \in Engines :
         syncs' = [syncs EXCEPT ![i].pc = "getDocs",
                                ![i].items = getWatchlist(RemoteCollection(remote), engine),
                                ![i].remoteIds = RemoteIds(remote)]
    /\ lastStep' = NoStep
    /\ UNCHANGED <<gwVars, social, handlerVars, syncCap, link, isInitialSyncing, now, lastSyncTimestamp, store, remote, anilistProfile,
                   anilistToken, isBackgroundSyncing, syncError, rendered,
                   prevItems, commitTime, failPending, remoteEdits>>

SyncFetchFail(i) ==
    /\ syncs[i].pc = "getWatchlist"
    /\ SyncFails(i)

\* firestoreItem.anime.id can be read of every document of the snapshot.
SnapshotReadable(st) == \A a \in StoreIds(st) : st[a].anime # NoMedia

\* getDocs resolved: the batch is built and its commit requested.
SyncGetDocsOk(i) ==
    /\ syncs[i].pc = "getDocs"
    /\ IF SnapshotReadable(store)
       THEN /\ syncs' = [syncs EXCEPT ![i].pc = "commit",
                                      ![i].snapshot = store,
                                      ![i].quiet = TRUE]
            /\ lastStep' = NoStep
            /\ UNCHANGED <<gwVars, social, handlerVars, syncCap, link, isInitialSyncing, now, lastSyncTimestamp, store, remote,
                           anilistProfile, anilistToken, isBackgroundSyncing,
                           syncError, rendered, prevItems, commitTime,
                           failPending, remoteEdits>>
       ELSE SyncFails(i)

SyncGetDocsFail(i) ==
    /\ syncs[i].pc = "getDocs"
    /\ SyncFails(i)

\* Another writer changed the store under the calls that hold a snapshot.
Disturbed(calls) == [j \in 1..Len(calls) |-> [calls[j] EXCEPT !.quiet = FALSE]]

\* batch.commit() resolved: the timestamp is taken and the flag cleared.
SyncCommitOk(i) ==
    /\ syncs[i].pc = "commit"
    /\ LET batch == SyncBatch(syncs[i].items, StoreIds(syncs[i].snapshot))
       IN  /\ store' = ApplyBatch(store, batch)
           /\ lastStep' = [kind      |-> "background",
                           anime     |-> NoMedia,
                           items     |-> syncs[i].items,
                           remoteIds |-> syncs[i].remoteIds,
                           sets      |-> batch.sets,
                           local     |-> syncs[i].snapshot,
                           deletes   |-> batch.deletes,
                           before    |-> store,
                           quiet     |-> syncs[i].quiet,
                           second    |-> /\ syncs[i].quiet
                                         /\ prevItems.valid
                                         /\ prevItems.items = syncs[i].items]
    /\ prevItems' = [valid |-> syncs[i].quiet, items |-> syncs[i].items]
    /\ lastSyncTimestamp' = now
    /\ commitTime' = now
    /\ isBackgroundSyncing' = FALSE
    /\ syncs' = Without(Disturbed(syncs), i)
    /\ UNCHANGED <<gwVars, social, handlerVars, syncCap, link, isInitialSyncing, now, remote, anilistProfile, anilistToken, syncError,
                   rendered, failPending, remoteEdits>>

SyncCommitFail(i) ==
    /\ syncs[i].pc = "commit"
    /\ SyncFails(i)

\* ------------------------------------------- linking and the initial merge
\* The Sync form is submitted with a token: onSyncStart, then linkAnilist up
\* to its request for the viewer.  The form is rendered only while no profile
\* is linked, and its button is disabled while a merge runs.
LinkStart ==
    /\ link.pc = "idle"
    /\ rendered.anilistProfile = "null"
    /\ anilistProfile = "null"
    /\ anilistToken = "null"
    /\ link' = [NoLink EXCEPT !.pc = "verify", !.local = Watchlist(store),
                              !.storedToken = link.storedToken,
                              !.authError = link.authError]
    /\ isInitialSyncing' = TRUE
    /\ lastStep' = NoStep
    /\ UNCHANGED <<gwVars, social, handlerVars, syncCap, now, lastSyncTimestamp, store, remote,
                   anilistProfile, anilistToken, isBackgroundSyncing, syncError,
                   rendered, syncs, prevItems, commitTime, failPending, remoteEdits>>

\* getViewerProfile resolved: setAnilistProfile(viewer), and linkAnilist asks
\* Firestore to keep the token.
LinkVerifyOk ==
    /\ link.pc = "verify"
    /\ anilistProfile' = "viewer"
    /\ link' = [link EXCEPT !.pc = "saveToken", !.verified = "ok"]
    /\ lastStep' = NoStep
    /\ UNCHANGED <<gwVars, social, handlerVars, syncCap, now, lastSyncTimestamp, store, remote,
                   anilistToken, isBackgroundSyncing, syncError, rendered, syncs,
                   prevItems, commitTime, failPending, remoteEdits, isInitialSyncing>>

\* What handleProceedWithSync does when the merge threw: onSyncFail.
LinkFails ==
    /\ link' = [link EXCEPT !.pc = "idle", !.local = <<>>, !.items = <<>>,
                            !.remoteIds = {}, !.queue = <<>>]
    /\ isInitialSyncing' = FALSE
    /\ lastStep' = NoStep

\* getViewerProfile rejected: the catch of verifyAnilistToken sets the error
\* and a null profile and asks Firestore to clear the stored token.
LinkVerifyFail ==
    /\ link.pc = "verify"
    /\ link' = [link EXCEPT !.pc = "clearToken", !.verified = "rejected",
                            !.authError = "Failed to link AniList account"]
    /\ anilistProfile' = "null"
    /\ lastStep' = NoStep
    /\ UNCHANGED <<gwVars, social, handlerVars, syncCap, now, lastSyncTimestamp, store, remote,
                   anilistToken, isBackgroundSyncing, syncError, rendered, syncs,
                   prevItems, commitTime, failPending, remoteEdits, isInitialSyncing>>

\* How a call of linkAnilist that gives no profile leaves the form: the
\* call ended with r, and handleProceedWithSync runs onSyncFail.
LinkEndsWith(r) ==
    /\ link' = [link EXCEPT !.pc = "idle", !.local = <<>>, !.items = <<>>,
                            !.remoteIds = {}, !.queue = <<>>,
                            !.storedToken = IF r = "null" THEN "null" ELSE @,
                            !.returned = r]
    /\ isInitialSyncing' = FALSE
    /\ lastStep' = NoStep
    /\ UNCHANGED <<gwVars, social, handlerVars, syncCap, now, lastSyncTimestamp, store, remote,
                   anilistProfile, anilistToken, isBackgroundSyncing, syncError,
                   rendered, syncs, prevItems, commitTime, failPending, remoteEdits>>

\* updateDoc with a null token resolved: verifyAnilistToken and linkAnilist
\* return null.
LinkClearOk ==
    /\ link.pc = "clearToken"
    /\ LinkEndsWith("null")

\* updateDoc with a null token rejected inside the catch: the rejection
\* leaves verifyAnilistToken and linkAnilist.
LinkClearFail ==
    /\ link.pc = "clearToken"
    /\ LinkEndsWith("thrown")

\* updateDoc resolved: setUserProfile with the token, linkAnilist returns the
\* profile and onSyncSuccess runs handleInitialSync up to its first await.
LinkTokenSaved ==
    /\ link.pc = "saveToken"
    /\ anilistToken' = "token"
    /\ isInitialSyncing' = TRUE
    /\ syncError' = "null"
    /\ link' = [link EXCEPT !.pc = "getWatchlist", !.storedToken = "token",
                            !.returned = "profile"]
    /\ lastStep' = NoStep
    /\ UNCHANGED <<gwVars, social, handlerVars, syncCap, now, lastSyncTimestamp, store, remote,
                   anilistProfile, isBackgroundSyncing, rendered, syncs,
                   prevItems, commitTime, failPending, remoteEdits>>

\* updateDoc rejected: linkAnilist throws.
LinkTokenSaveFail ==
    /\ link.pc = "saveToken"
    /\ LinkEndsWith("thrown")

\* handleInitialSync going to its batch with items left to upload.
AfterUploads_SkipUploads(queue) == "commit"

\* The step of handleInitialSync after the uploads so far: the next upload,
\* or the batch of sets when none is left.
AfterUploads(queue) == IF Len(queue) = 0 THEN "commit" ELSE "upload"

\* getWatchlist resolved: the local-only items are found and the first of
\* them is sent to AniList.
InitFetchOk ==
    /\ link.pc = "getWatchlist"
    /\ \E engine \in Engines :
         LET anilistWatchlist == getWatchlist(RemoteCollection(remote), engine)
             queue            == itemsToUpload(link.local, anilistWatchlist)
         IN  link' = [link EXCEPT !.pc = AfterUploads(queue),
                                  !.items = anilistWatchlist,
                                  !.remoteIds = RemoteIds(remote),
                                  !.queue = queue,
                                  !.toUpload = ItemIds(queue)]
    /\ lastStep' = NoStep
    /\ UNCHANGED <<gwVars, social, handlerVars, syncCap, now, lastSyncTimestamp, store, remote,
                   anilistProfile, anilistToken, isBackgroundSyncing, syncError,
                   rendered, syncs, prevItems, commitTime, failPending,
                   remoteEdits, isInitialSyncing>>

\* catch and finally of handleInitialSync, then the catch of
\* handleProceedWithSync.
InitFails ==
    /\ syncError' = "Failed to sync watchlist"
    /\ LinkFails
    /\ UNCHANGED <<gwVars, social, handlerVars, syncCap, now, lastSyncTimestamp, store, remote,
                   anilistProfile, anilistToken, isBackgroundSyncing, rendered,
                   syncs, prevItems, commitTime, failPending, remoteEdits>>

InitFetchFail ==
    /\ link.pc = "getWatchlist"
    /\ InitFails

\* saveWatchlistItem resolved for the item at the head of itemsToUpload.
InitUploadOk ==
    /\ link.pc = "upload"
    /\ LET item == Head(link.queue)
       IN  /\ remote' = [remote EXCEPT ![item.anime] =
                            RemoteEntry(item.anime, mapWatchStatusToApiStatus(item.status),
                                        item.watchedEpisodes)]
           /\ link' = [link EXCEPT !.pc = AfterUploads(Tail(link.queue)),
                                   !.queue = Tail(link.queue),
                                   !.uploaded = @ \cup {item.anime}]
    /\ lastStep' = NoStep
    /\ UNCHANGED <<gwVars, social, handlerVars, syncCap, now, lastSyncTimestamp, store, anilistProfile,
                   anilistToken, isBackgroundSyncing, syncError, rendered, syncs,
                   prevItems, commitTime, failPending, remoteEdits, isInitialSyncing>>

\* saveWatchlistItem rejected: the loop is left through the catch.
InitUploadFail ==
    /\ link.pc = "upload"
    /\ syncError' = "Failed to sync watchlist"
    /\ link' = [link EXCEPT !.pc = "idle", !.local = <<>>, !.items = <<>>,
                            !.remoteIds = {}, !.queue = <<>>,
                            !.failed = @ \cup {Head(link.queue).anime}]
    /\ isInitialSyncing' = FALSE
    /\ lastStep' = NoStep
    /\ UNCHANGED <<gwVars, social, handlerVars, syncCap, now, lastSyncTimestamp, store, remote,
                   anilistProfile, anilistToken, isBackgroundSyncing, rendered,
                   syncs, prevItems, commitTime, failPending, remoteEdits>>

\* batch.commit() of handleInitialSync resolved: a set per AniList item.
InitCommitOk ==
    /\ link.pc = "commit"
    /\ store' = ApplySets(store, link.items)
    /\ lastStep' = [kind      |-> "initial",
                    anime     |-> NoMedia,
                    items     |-> link.items,
                    remoteIds |-> link.remoteIds,
                    sets      |-> link.items,
                    local     |-> ListAsStore(link.local),
                    deletes   |-> {},
                    before    |-> store,
                    quiet     |-> FALSE,
                    second    |-> FALSE]
    /\ link' = [link EXCEPT !.pc = "idle", !.local = <<>>, !.items = <<>>,
                            !.remoteIds = {}]
    /\ isInitialSyncing' = FALSE
    /\ syncs' = Disturbed(syncs)
    /\ prevItems' = [valid |-> FALSE, items |-> <<>>]
    /\ UNCHANGED <<gwVars, social, handlerVars, syncCap, now, lastSyncTimestamp, remote, anilistProfile,
                   anilistToken, isBackgroundSyncing, syncError, rendered,
                   commitTime, failPending, remoteEdits>>

InitCommitFail ==
    /\ link.pc = "commit"
    /\ InitFails

\* ------------------------------------------ add, update and remove handlers
\* anime.episodes of the catalogue entries.
Episodes(a) == episodes[a]

\* anime.episodes is a number: not null, not undefined.
Known(e) == e # NoEpisodes

\* The statuses the user picks in the model's runs, out of the five the menu
\* of a card offers.
MenuChoices == {"WATCHING", "PLAN_TO_WATCH"}

\* watchlist.find(item => item.anime.id === animeId), NoDoc when not found.
Find(list, a) ==
    IF \E k \in 1..Len(list) : list[k].anime = a
    THEN list[CHOOSE k \in 1..Len(list) : list[k].anime = a]
    ELSE NoDoc

\* setDoc(docRef, fields, {merge: true}): the fields given replace the
\* document's, the others stay, and a document that is not there is created.
MergeDoc(document, fields) ==
    [f \in DOMAIN NoDoc |-> IF f \in DOMAIN fields THEN fields[f] ELSE document[f]]

\* watchedEpisodes with the test for Plan to Watch made first.
AddWatchedEpisodes_PlanFirst(existingItem, status, eps) ==
    LET watchedEpisodes == IF existingItem # NoDoc THEN existingItem.watchedEpisodes
                           ELSE 0
    IN  IF status = "PLAN_TO_WATCH" THEN 0
        ELSE IF status = "COMPLETED" /\ Known(eps) /\ eps # 0 THEN eps
        ELSE IF status = "WATCHING" /\ watchedEpisodes = 0 /\ eps # 0 THEN 1
        ELSE watchedEpisodes

\* watchedEpisodes as handleAddToWatchlist computes it.
AddWatchedEpisodes(existingItem, status, eps) ==
    LET watchedEpisodes == IF existingItem # NoDoc THEN existingItem.watchedEpisodes
                           ELSE 0
    IN  IF status = "COMPLETED" /\ Known(eps) /\ eps # 0 THEN eps
        ELSE IF /\ existingItem.status # "WATCHING"
                /\ status = "WATCHING"
                /\ watchedEpisodes = 0
                /\ eps # 0 THEN 1
        ELSE IF status = "PLAN_TO_WATCH" THEN 0
        ELSE watchedEpisodes

Max(x, y) == IF x >= y THEN x ELSE y
Min(x, y) == IF x <= y THEN x ELSE y

\* newWatchedCount without Math.min.
newWatchedCount_NoMin(item, change) ==
    Max(0, item.watchedEpisodes + change)

\* newWatchedCount and newStatus of handleUpdateWatchedEpisodes.
newWatchedCount(item, change) ==
    Max(0, Min(Episodes(item.anime), item.watchedEpisodes + change))

\* newStatus without the rule that reopens a completed item.
newStatus_NoReopen(item, change) ==
    LET count == newWatchedCount(item, change)
    IN  IF count = Episodes(item.anime) THEN "COMPLETED"
        ELSE IF count > 0 /\ item.status # "PAUSED" /\ item.status # "DROPPED"
             THEN "WATCHING"
        ELSE item.status

\* newStatus with the test for a progress above 0 made first.
newStatus_ProgressFirst(item, change) ==
    LET count == newWatchedCount(item, change)
    IN  IF count > 0 /\ item.status # "PAUSED" /\ item.status # "DROPPED"
        THEN "WATCHING"
        ELSE IF count = Episodes(item.anime) THEN "COMPLETED"
        ELSE IF item.status = "COMPLETED" /\ count < Episodes(item.anime)
             THEN "WATCHING"
        ELSE item.status

newStatus(item, change) ==
    LET count == newWatchedCount(item, change)
    IN  IF count = Episodes(item.anime) THEN "COMPLETED"
        ELSE IF count > 0 /\ item.status # "PAUSED" /\ item.status # "DROPPED"
             THEN "WATCHING"
        ELSE IF item.status = "COMPLETED" /\ count < Episodes(item.anime)
             THEN "WATCHING"
        ELSE item.status

\* The first write with the remove leaving the document in place.
FirstWrite_NoDelete(st, op) ==
    [st EXCEPT ![op.anime] = IF op.kind = "remove" THEN @
                             ELSE MergeDoc(@, op.fields)]

\* The store after the write a handler sends first: deleteDoc for a remove,
\* setDoc with merge for an add and an update.
FirstWrite(st, op) ==
    [st EXCEPT ![op.anime] = IF op.kind = "remove" THEN NoDoc
                             ELSE MergeDoc(@, op.fields)]

\* A handler past its guards: setSyncingIds adds the identifier and the
\* first write is sent. The Firestore client applies a write to its view of
\* the collection when it is called, in the order of the calls; the promise
\* the handler awaits resolves when the server has acknowledged it.  The
\* handler runs in the click, so React renders the cards with the new
\* syncingIds before the next click.
StartOp(op) ==
    /\ opsStarted < MaxOps
    /\ Len(ops) < opCap
    /\ opsStarted' = opsStarted + 1
    /\ ops' = Append(ops, [op EXCEPT !.before = store[op.anime]])
    /\ syncingIds' = syncingIds \cup {op.anime}
    /\ cards' = [watchlist |-> watchlist, syncingIds |-> syncingIds']
    /\ store' = FirstWrite(store, op)
    /\ latest' = IF op.kind = "update" THEN latest
                 ELSE [latest EXCEPT ![op.anime] = op.kind]
    /\ lastStep' = [NoStep EXCEPT !.kind = op.kind, !.anime = op.anime,
                                  !.before = store]
    /\ UNCHANGED <<gwVars, social, syncCap, link, isInitialSyncing, now, lastSyncTimestamp,
                   anilistProfile, anilistToken, isBackgroundSyncing, rendered, syncs,
                   prevItems, commitTime, failPending, remoteEdits, remote, syncError,
                   watchlist, opCap, episodes>>

\* handleAddToWatchlist up to its first await, through the closure of the
\* last render.
handleAddToWatchlist(a, status) ==
    LET existingItem    == Find(cards.watchlist, a)
        watchedEpisodes == AddWatchedEpisodes(existingItem, status, Episodes(a))
        spread          == IF existingItem # NoDoc /\ existingItem.mediaListId # NoId
                           THEN [mediaListId |-> existingItem.mediaListId, anime |-> a,
                                 status |-> status, watchedEpisodes |-> watchedEpisodes]
                           ELSE [anime |-> a, status |-> status,
                                 watchedEpisodes |-> watchedEpisodes]
    IN  StartOp([kind |-> "add", anime |-> a, pc |-> "setDoc", fields |-> spread,
                 status |-> status, watchedEpisodes |-> watchedEpisodes,
                 mediaListId |-> NoId, token |-> rendered.anilistToken,
                 before |-> NoDoc])

\* handleUpdateWatchedEpisodes up to its first await.
handleUpdateWatchedEpisodes(a, change) ==
    LET item == Find(cards.watchlist, a)
    IN  IF item = NoDoc \/ ~Known(Episodes(a))
        THEN /\ lastStep' = [NoStep EXCEPT !.kind = "returned", !.anime = a,
                                           !.before = store]
             /\ UNCHANGED <<gwVars, social, appVars_but_lastStep, handlerVars>>
        ELSE StartOp([kind |-> "update", anime |-> a, pc |-> "setDoc",
                    fields |-> [watchedEpisodes |-> newWatchedCount(item, change),
                                status |-> newStatus(item, change)],
                    status |-> newStatus(item, change),
                    watchedEpisodes |-> newWatchedCount(item, change),
                    mediaListId |-> NoId, token |-> rendered.anilistToken,
                 before |-> NoDoc])

\* handleRemoveFromWatchlist up to its first await.
handleRemoveFromWatchlist(a) ==
    LET itemToRemove == Find(cards.watchlist, a)
    IN  /\ itemToRemove # NoDoc
        /\ StartOp([kind |-> "remove", anime |-> a, pc |-> "deleteDoc",
                    fields |-> [anime |-> a],
                    status |-> itemToRemove.status,
                    watchedEpisodes |-> itemToRemove.watchedEpisodes,
                    mediaListId |-> itemToRemove.mediaListId,
                    token |-> rendered.anilistToken, before |-> NoDoc])

\* A status is picked on a card that was given isSyncing: the overlay of a
\* syncing card takes the click.
CardStatus(a, status) ==
    /\ ~(a \in cards.syncingIds)
    /\ handleAddToWatchlist(a, status)

\* A status is picked on the card of a recommendation, which is given no
\* isSyncing.
RecommendationStatus(a, status) ==
    /\ status \in WatchStatus
    /\ handleAddToWatchlist(a, status)

\* The minus or plus button of a card of the watchlist view.
CardEpisode(a, change) ==
    /\ ~(a \in cards.syncingIds)
    /\ Find(cards.watchlist, a) # NoDoc
    /\ Known(Episodes(a)) /\ Episodes(a) # 0
    /\ change = -1 => Find(cards.watchlist, a).watchedEpisodes # 0
    /\ change = 1 => Find(cards.watchlist, a).watchedEpisodes # Episodes(a)
    /\ handleUpdateWatchedEpisodes(a, change)

\* The remove button of the watchlist view, a sibling of the card above its
\* overlay.
RemoveButton(a) ==
    /\ Find(cards.watchlist, a) # NoDoc
    /\ handleRemoveFromWatchlist(a)

\* handleUpdateWatchedEpisodes called with any change, as the function
\* allows.
UpdateCall(a, change) ==
    /\ change \in Changes
    /\ handleUpdateWatchedEpisodes(a, change)

\* The snapshot listener delivers the collection: setWatchlist.
WatchlistSnapshot ==
    /\ watchlist # Watchlist(store)
    /\ watchlist' = Watchlist(store)
    /\ lastStep' = NoStep
    /\ UNCHANGED <<gwVars, social, appVars_but_lastStep, cards, syncingIds, ops, opsStarted,
                   opCap, latest, episodes>>

\* React renders the cards and the handlers with the present state.
RenderCards ==
    /\ cards # [watchlist |-> watchlist, syncingIds |-> syncingIds]
    /\ cards' = [watchlist |-> watchlist, syncingIds |-> syncingIds]
    /\ lastStep' = NoStep
    /\ UNCHANGED <<gwVars, social, appVars_but_lastStep, watchlist, syncingIds, ops, opsStarted,
                   opCap, latest, episodes>>

OpIds == 1..Len(ops)

\* finally of the three handlers after a try block that ran to its end: the
\* identifier leaves syncingIds.  The step of a remove is told apart by
\* whether its closure held a token.
OpEnds(i) ==
    /\ ops' = Without(ops, i)
    /\ syncingIds' = syncingIds \ {ops[i].anime}
    /\ lastStep' = IF ops[i].kind = "remove"
                   THEN [NoStep EXCEPT !.kind = IF ops[i].token # "null" THEN "removed"
                                                ELSE "removedLocal",
                                       !.anime = ops[i].anime]
                   ELSE NoStep

OpUnchanged == <<gwVars, social, syncCap, link, isInitialSyncing, now, lastSyncTimestamp,
                 anilistProfile, anilistToken, isBackgroundSyncing, rendered, syncs,
                 prevItems, commitTime, failPending, remoteEdits, watchlist, cards,
                 opsStarted, opCap, latest, episodes>>

\* The first setDoc of an add or an update resolved.
OpSetDoc(i) ==
    /\ ops[i].pc = "setDoc"
    /\ IF ops[i].token # "null"
       THEN /\ ops' = [ops EXCEPT ![i].pc = "save"]
            /\ lastStep' = NoStep
            /\ UNCHANGED syncingIds
       ELSE OpEnds(i)
    /\ UNCHANGED <<OpUnchanged, store, remote, syncError>>

\* What saveWatchlistItem returns for handler call i, as the second setDoc
\* writes it: an add writes mediaListId, status and watchedEpisodes, an
\* update status and watchedEpisodes.
SecondWrite(op, id) ==
    LET result == [mediaListId |-> id,
                   status |-> mapApiStatusToWatchStatus(
                                 mapWatchStatusToApiStatus(op.status)),
                   watchedEpisodes |-> op.watchedEpisodes]
    IN  IF op.kind = "add" THEN result
        ELSE [status |-> result.status, watchedEpisodes |-> result.watchedEpisodes]

\* saveWatchlistItem resolved: the result is written with a second setDoc.
OpSave(i) ==
    /\ ops[i].pc = "save"
    /\ remote' = [remote EXCEPT ![ops[i].anime] =
                     RemoteEntry(ops[i].anime, mapWatchStatusToApiStatus(ops[i].status),
                                 ops[i].watchedEpisodes)]
    /\ ops' = [ops EXCEPT ![i].pc = "setDoc2",
                          ![i].mediaListId = RemoteEntry(ops[i].anime, "CURRENT", 0).id,
                          ![i].before = store[ops[i].anime]]
    /\ store' = [store EXCEPT ![ops[i].anime] =
                    MergeDoc(@, SecondWrite(ops[i], RemoteEntry(ops[i].anime, "CURRENT", 0).id))]
    /\ lastStep' = [NoStep EXCEPT !.kind = IF ops[i].kind = "add" THEN "addSaved"
                                           ELSE "updateSaved",
                                  !.anime = ops[i].anime,
                                  !.before = store]
    /\ UNCHANGED <<OpUnchanged, syncError, syncingIds>>

\* The second setDoc resolved.
OpSetDoc2(i) ==
    /\ ops[i].pc = "setDoc2"
    /\ OpEnds(i)
    /\ UNCHANGED <<OpUnchanged, store, remote, syncError>>

\* deleteDoc resolved.
OpDeleteDoc(i) ==
    /\ ops[i].pc = "deleteDoc"
    /\ IF ops[i].token # "null" /\ ops[i].mediaListId # NoId
       THEN /\ ops' = [ops EXCEPT ![i].pc = "deleteRemote"]
            /\ lastStep' = NoStep
            /\ UNCHANGED syncingIds
       ELSE OpEnds(i)
    /\ UNCHANGED <<OpUnchanged, store, remote, syncError>>

\* deleteWatchlistItem resolved: AniList had the entry and deleted it.
OpDeleteRemote(i) ==
    /\ ops[i].pc = "deleteRemote"
    /\ remote[ops[i].anime].id = ops[i].mediaListId
    /\ remote' = [remote EXCEPT ![ops[i].anime] = NoEntry]
    /\ OpEnds(i)
    /\ UNCHANGED <<OpUnchanged, store, syncError>>

\* The store after the request handler call i awaits was rejected: a write
\* the server rejects is taken back from the client's view of the
\* collection, a request to AniList leaves it alone.
Rejected(st, op) ==
    IF op.pc \in {"setDoc", "setDoc2", "deleteDoc"}
    THEN [st EXCEPT ![op.anime] = op.before] ELSE st

\* finally without the catch before it: the rejection leaves the handler.
OpFail_Uncaught(i) ==
    /\ ops' = Without(ops, i)
    /\ syncingIds' = syncingIds \ {ops[i].anime}
    /\ store' = Rejected(store, ops[i])
    /\ lastStep' = [NoStep EXCEPT !.kind = "opFailed", !.anime = ops[i].anime]
    /\ UNCHANGED <<OpUnchanged, remote, syncError>>

\* The request a handler awaits rejected: catch, then finally.
OpFail(i) ==
    /\ syncError' = "Failed to sync item"
    /\ ops' = Without(ops, i)
    /\ syncingIds' = syncingIds \ {ops[i].anime}
    /\ store' = Rejected(store, ops[i])
    /\ lastStep' = [NoStep EXCEPT !.kind = "opFailed", !.anime = ops[i].anime]
    /\ UNCHANGED <<OpUnchanged, remote>>

\* ------------------------------------------------------------ environment
\* Time passes; a pending render does not wait that long.
Tick ==
    /\ rendered = Current
    /\ now + TickMs \in Times
    /\ now' = now + TickMs
    /\ lastStep' = NoStep
    /\ UNCHANGED <<gwVars, social, handlerVars, syncCap, link, isInitialSyncing, lastSyncTimestamp, store, remote, anilistProfile,
                   anilistToken, isBackgroundSyncing, syncError, rendered, syncs,
                   prevItems, commitTime, failPending, remoteEdits>>

\* Entries the user may set on the AniList site for media a.
RemoteEntryChoices(a) ==
    IF a = 1 THEN {RemoteEntry(a, "CURRENT", 1), RemoteEntry(a, "DROPPED", 1), NoEntry}
    ELSE {RemoteEntry(a, "CURRENT", 1), NoEntry}

\* The list is edited on AniList, outside the app.
RemoteEdit(a, e) ==
    /\ remoteEdits < MaxRemoteEdits
    /\ e # remote[a]
    /\ remote' = [remote EXCEPT ![a] = e]
    /\ remoteEdits' = remoteEdits + 1
    /\ lastStep' = NoStep
    /\ UNCHANGED <<gwVars, social, handlerVars, syncCap, link, isInitialSyncing, now, lastSyncTimestamp, store, anilistProfile,
                   anilistToken, isBackgroundSyncing, syncError, rendered, syncs,
                   prevItems, commitTime, failPending>>

\* ---------------------------------------------------------- specification
\* A signed-in user whose stored token is about to be verified; the store
\* holds what earlier sessions left, AniList what the user keeps there.
Init ==
    /\ GwIdle
    /\ FriendsIdle
    /\ now = StartTime
    /\ lastSyncTimestamp = 0
    /\ store \in {[a \in AnimeIds |-> IF a \in S THEN LocalOnlyItem(a, "WATCHING", 1) ELSE NoDoc] :
                     S \in SUBSET AnimeIds}
    /\ remote \in {rm \in [AnimeIds -> UNION {RemoteEntryChoices(a) : a \in AnimeIds}] :
                      \A a \in AnimeIds : rm[a] \in RemoteEntryChoices(a)}
    /\ anilistProfile = "null"
    /\ anilistToken = "token"
    /\ isBackgroundSyncing = FALSE
    /\ syncError = "null"
    /\ rendered = Current
    /\ syncs = <<>>
    /\ syncCap = MaxSyncCalls
    /\ lastStep = NoStep
    /\ prevItems = [valid |-> FALSE, items |-> <<>>]
    /\ commitTime = -1
    /\ failPending = FALSE
    /\ remoteEdits = 0
    /\ link = [NoLink EXCEPT !.storedToken = anilistToken]
    /\ isInitialSyncing = FALSE
    /\ HandlersIdle

Next ==
    \/ Visibility
    \/ Interval
    \/ Render
    \/ VerifyStoredToken
    \/ \E i \in SyncCallIds : SyncFetchOk(i)
    \/ \E i \in SyncCallIds : SyncFetchFail(i)
    \/ \E i \in SyncCallIds : SyncGetDocsOk(i)
    \/ \E i \in SyncCallIds : SyncGetDocsFail(i)
    \/ \E i \in SyncCallIds : SyncCommitOk(i)
    \/ \E i \in SyncCallIds : SyncCommitFail(i)
    \/ Tick
    \/ \E a \in AnimeIds : \E e \in RemoteEntryChoices(a) : RemoteEdit(a, e)

Spec == Init /\ [][Next]_vars

\* A signed-in user without a linked account, who links one: the initial
\* merge and the background sync that the new profile sets off.
LinkInit ==
    /\ GwIdle
    /\ FriendsIdle
    /\ now = StartTime
    /\ lastSyncTimestamp = 0
    /\ store \in {[a \in AnimeIds |-> IF a \in S THEN LocalOnlyItem(a, "WATCHING", 1) ELSE NoDoc] :
                     S \in SUBSET AnimeIds}
    /\ remote \in {rm \in [AnimeIds -> UNION {RemoteEntryChoices(a) : a \in AnimeIds}] :
                      \A a \in AnimeIds : rm[a] \in RemoteEntryChoices(a)}
    /\ anilistProfile = "null"
    /\ anilistToken = "null"
    /\ isBackgroundSyncing = FALSE
    /\ syncError = "null"
    /\ rendered = Current
    /\ syncs = <<>>
    /\ syncCap = MaxSyncCalls
    /\ lastStep = NoStep
    /\ prevItems = [valid |-> FALSE, items |-> <<>>]
    /\ commitTime = -1
    /\ failPending = FALSE
    /\ remoteEdits = 0
    /\ link = [NoLink EXCEPT !.storedToken = anilistToken]
    /\ isInitialSyncing = FALSE
    /\ HandlersIdle

LinkNext ==
    \/ LinkStart
    \/ LinkVerifyOk
    \/ LinkVerifyFail
    \/ LinkClearOk
    \/ LinkClearFail
    \/ LinkTokenSaved
    \/ LinkTokenSaveFail
    \/ InitFetchOk
    \/ InitFetchFail
    \/ InitUploadOk
    \/ InitUploadFail
    \/ InitCommitOk
    \/ InitCommitFail
    \/ Render
    \/ Visibility
    \/ \E i \in SyncCallIds : SyncFetchOk(i)
    \/ \E i \in SyncCallIds : SyncFetchFail(i)
    \/ \E i \in SyncCallIds : SyncGetDocsOk(i)
    \/ \E i \in SyncCallIds : SyncGetDocsFail(i)
    \/ \E i \in SyncCallIds : SyncCommitOk(i)
    \/ \E i \in SyncCallIds : SyncCommitFail(i)

LinkSpec == LinkInit /\ [][LinkNext]_vars

\* The background sync alone, two calls above each other followed, with one
\* entry on AniList and an empty store.
SyncFlagsInit ==
    /\ GwIdle
    /\ FriendsIdle
    /\ now = StartTime
    /\ lastSyncTimestamp = 0
    /\ store = [a \in AnimeIds |-> NoDoc]
    /\ remote = [a \in AnimeIds |-> IF a = 1 THEN RemoteEntry(a, "CURRENT", 1) ELSE NoEntry]
    /\ anilistProfile = "null"
    /\ anilistToken = "token"
    /\ isBackgroundSyncing = FALSE
    /\ syncError = "null"
    /\ rendered = Current
    /\ syncs = <<>>
    /\ syncCap = MaxSyncCalls + 1
    /\ lastStep = NoStep
    /\ prevItems = [valid |-> FALSE, items |-> <<>>]
    /\ commitTime = -1
    /\ failPending = FALSE
    /\ remoteEdits = 0
    /\ link = [NoLink EXCEPT !.storedToken = anilistToken]
    /\ isInitialSyncing = FALSE
    /\ HandlersIdle

SyncFlagsNext ==
    \/ Visibility
    \/ Interval
    \/ Render
    \/ VerifyStoredToken
    \/ \E i \in SyncCallIds : SyncFetchOk(i)
    \/ \E i \in SyncCallIds : SyncFetchFail(i)
    \/ \E i \in SyncCallIds : SyncGetDocsOk(i)
    \/ \E i \in SyncCallIds : SyncGetDocsFail(i)
    \/ \E i \in SyncCallIds : SyncCommitOk(i)
    \/ \E i \in SyncCallIds : SyncCommitFail(i)
    \/ Tick

SyncFlagsSpec == SyncFlagsInit /\ [][SyncFlagsNext]_vars

\* A signed-in user, with or without a linked account, who uses the cards.
HandlersInit ==
    /\ GwIdle
    /\ FriendsIdle
    /\ now = StartTime
    /\ lastSyncTimestamp = StartTime
    /\ anilistToken \in {"null", "token"}
    /\ anilistProfile = IF anilistToken = "null" THEN "null" ELSE "viewer"
    /\ \E held \in SUBSET {1} :
         /\ store = [a \in AnimeIds |->
                       IF a \in held
                       THEN [mediaListId |-> IF anilistToken = "null" THEN NoId
                                             ELSE RemoteEntry(a, "CURRENT", 1).id,
                             anime |-> a, status |-> "WATCHING", watchedEpisodes |-> 1]
                       ELSE NoDoc]
         /\ remote = [a \in AnimeIds |->
                       IF a \in held /\ anilistToken # "null"
                       THEN RemoteEntry(a, "CURRENT", 1) ELSE NoEntry]
    /\ isBackgroundSyncing = FALSE
    /\ syncError = "null"
    /\ rendered = Current
    /\ syncs = <<>>
    /\ syncCap = MaxSyncCalls
    /\ lastStep = NoStep
    /\ prevItems = [valid |-> FALSE, items |-> <<>>]
    /\ commitTime = -1
    /\ failPending = FALSE
    /\ remoteEdits = 0
    /\ link = [NoLink EXCEPT !.storedToken = anilistToken]
    /\ isInitialSyncing = FALSE
    /\ watchlist = Watchlist(store)
    /\ cards = [watchlist |-> watchlist, syncingIds |-> {}]
    /\ syncingIds = {}
    /\ ops = <<>>
    /\ opsStarted = 0
    /\ opCap = MaxOps
    /\ latest = [a \in AnimeIds |-> IF store[a] # NoDoc THEN "add" ELSE "none"]
    /\ episodes = Catalogue

HandlersNext ==
    \/ \E a \in AnimeIds : \E status \in MenuChoices : CardStatus(a, status)
    \/ \E a \in AnimeIds : \E status \in MenuChoices : RecommendationStatus(a, status)
    \/ \E a \in AnimeIds : \E change \in {-1, 1} : CardEpisode(a, change)
    \/ \E a \in AnimeIds : RemoveButton(a)
    \/ WatchlistSnapshot
    \/ RenderCards
    \/ \E i \in OpIds : OpSetDoc(i)
    \/ \E i \in OpIds : OpSave(i)
    \/ \E i \in OpIds : OpSetDoc2(i)
    \/ \E i \in OpIds : OpDeleteDoc(i)
    \/ \E i \in OpIds : OpDeleteRemote(i)
    \/ \E i \in OpIds : OpFail(i)

HandlersSpec == HandlersInit /\ [][HandlersNext]_vars

\* The anime whose card the user of the session works with.
SessionIds == {1}

\* A user with a linked account who uses a card between the runs of the
\* background sync, one handler and one sync at a time: every request of a
\* handler and of the sync may reject.
SessionInit ==
    /\ GwIdle
    /\ FriendsIdle
    /\ now = StartTime
    /\ lastSyncTimestamp = 0
    /\ anilistToken = "token"
    /\ anilistProfile = "viewer"
    /\ \E held \in SUBSET {1} :
         /\ store = [a \in AnimeIds |->
                       IF a \in held
                       THEN [mediaListId |-> RemoteEntry(a, "CURRENT", 1).id,
                             anime |-> a, status |-> "WATCHING", watchedEpisodes |-> 1]
                       ELSE NoDoc]
         /\ remote = [a \in AnimeIds |->
                       IF a \in held THEN RemoteEntry(a, "CURRENT", 1) ELSE NoEntry]
    /\ isBackgroundSyncing = FALSE
    /\ syncError = "null"
    /\ rendered = Current
    /\ syncs = <<>>
    /\ syncCap = 1
    /\ lastStep = NoStep
    /\ prevItems = [valid |-> FALSE, items |-> <<>>]
    /\ commitTime = -1
    /\ failPending = FALSE
    /\ remoteEdits = 0
    /\ link = [NoLink EXCEPT !.storedToken = anilistToken]
    /\ isInitialSyncing = FALSE
    /\ watchlist = Watchlist(store)
    /\ cards = [watchlist |-> watchlist, syncingIds |-> {}]
    /\ syncingIds = {}
    /\ ops = <<>>
    /\ opsStarted = 0
    /\ opCap = 1
    /\ latest = [a \in AnimeIds |-> IF store[a] # NoDoc THEN "add" ELSE "none"]
    /\ episodes = Catalogue

SessionNext ==
    \/ syncs = <<>> /\ rendered = Current /\ \E a \in SessionIds : \E status \in MenuChoices : CardStatus(a, status)
    \/ syncs = <<>> /\ rendered = Current /\ \E a \in SessionIds : \E change \in {-1, 1} : CardEpisode(a, change)
    \/ syncs = <<>> /\ rendered = Current /\ \E a \in SessionIds : RemoveButton(a)
    \/ WatchlistSnapshot
    \/ RenderCards
    \/ \E i \in OpIds : OpSetDoc(i)
    \/ \E i \in OpIds : OpSave(i)
    \/ \E i \in OpIds : OpSetDoc2(i)
    \/ \E i \in OpIds : OpDeleteDoc(i)
    \/ \E i \in OpIds : OpDeleteRemote(i)
    \/ \E i \in OpIds : OpFail(i)
    \/ ops = <<>> /\ Visibility
    \/ ops = <<>> /\ Render
    \/ \E i \in SyncCallIds : SyncFetchOk(i)
    \/ \E i \in SyncCallIds : SyncFetchFail(i)
    \/ \E i \in SyncCallIds : SyncGetDocsOk(i)
    \/ \E i \in SyncCallIds : SyncGetDocsFail(i)
    \/ \E i \in SyncCallIds : SyncCommitOk(i)
    \/ \E i \in SyncCallIds : SyncCommitFail(i)

SessionSpec == SessionInit /\ [][SessionNext]_vars

\* The documents a user without a linked account can have made for anime a
\* with the handlers: any status, with the progress the handlers leave.
LocalDocs(a, eps) ==
    {NoDoc} \cup
    {LocalOnlyItem(a, p[1], p[2]) :
        p \in {q \in WatchStatus \X (0..(IF Known(eps) THEN eps ELSE 1)) :
                  /\ q[1] = "COMPLETED" /\ Known(eps) => q[2] = eps
                  /\ q[1] = "PLAN_TO_WATCH" => q[2] = 0}}

\* Nothing is awaited and the handlers on screen have the present list.
Settled ==
    /\ ops = <<>>
    /\ watchlist = Watchlist(store)
    /\ cards = [watchlist |-> watchlist, syncingIds |-> syncingIds]

\* A user without a linked account who adds, edits and removes, one
\* operation after the other; no request fails.
LocalInit ==
    /\ GwIdle
    /\ FriendsIdle
    /\ now = StartTime
    /\ lastSyncTimestamp = 0
    /\ anilistToken = "null"
    /\ anilistProfile = "null"
    /\ episodes = Catalogue
    /\ store \in {st \in [AnimeIds -> UNION {LocalDocs(a, Catalogue[a]) : a \in AnimeIds}] :
                     \A a \in AnimeIds : st[a] \in LocalDocs(a, Catalogue[a])}
    /\ remote = [a \in AnimeIds |-> NoEntry]
    /\ isBackgroundSyncing = FALSE
    /\ syncError = "null"
    /\ rendered = Current
    /\ syncs = <<>>
    /\ syncCap = MaxSyncCalls
    /\ lastStep = NoStep
    /\ prevItems = [valid |-> FALSE, items |-> <<>>]
    /\ commitTime = -1
    /\ failPending = FALSE
    /\ remoteEdits = 0
    /\ link = [NoLink EXCEPT !.storedToken = anilistToken]
    /\ isInitialSyncing = FALSE
    /\ watchlist = Watchlist(store)
    /\ cards = [watchlist |-> watchlist, syncingIds |-> {}]
    /\ syncingIds = {}
    /\ ops = <<>>
    /\ opsStarted = 0
    /\ opCap = 1
    /\ latest = [a \in AnimeIds |-> IF store[a] # NoDoc THEN "add" ELSE "none"]

LocalNext ==
    \/ Settled /\ \E a \in AnimeIds : \E status \in WatchStatus : RecommendationStatus(a, status)
    \/ Settled /\ \E a \in AnimeIds : \E change \in Changes : UpdateCall(a, change)
    \/ Settled /\ \E a \in AnimeIds : RemoveButton(a)
    \/ WatchlistSnapshot
    \/ RenderCards
    \/ \E i \in OpIds : OpSetDoc(i)
    \/ \E i \in OpIds : OpDeleteDoc(i)

LocalSpec == LocalInit /\ [][LocalNext]_vars

\* Three users with friend requests pending between them, under either
\* version of the provider.
FriendsInit ==
    /\ GwIdle
    /\ AppIdle
    /\ social \in {[NoSocial EXCEPT !.version = v, !.friendRequests = rs] :
                     v \in Versions,
                     rs \in SUBSET {[fromUid |-> p[1], toUid |-> p[2]] :
                                      p \in {q \in Uids \X Uids : q[1] # q[2]}}}

FriendsNext ==
    \/ \E uid \in Uids : \E request \in social.friendRequests : \E accept \in BOOLEAN :
          respondToFriendRequest(uid, request, accept)
    \/ \E uid, friendUid \in Uids : removeFriend(uid, friendUid)
    \/ \E call \in social.calls : AcceptCommit(call)
    \/ \E call \in social.calls : RemoveCommit(call)
    \/ \E call \in social.calls : FriendWriteFails(call)

FriendsSpec == FriendsInit /\ [][FriendsNext]_vars

\* The handlers called for one anime, with any status and any change, on any
\* item the store may hold for it (AniList may report a progress above the
\* episode count) and any episode count, with and without a linked account,
\* one call after the other.
RulesInit ==
    /\ GwIdle
    /\ FriendsIdle
    /\ now = StartTime
    /\ lastSyncTimestamp = StartTime
    /\ anilistToken \in {"null", "token"}
    /\ anilistProfile = IF anilistToken = "null" THEN "null" ELSE "viewer"
    /\ episodes \in {[a \in AnimeIds |-> IF a \in SessionIds THEN e ELSE NoEpisodes] :
                        e \in {NoEpisodes} \cup 0..MaxEpisodes}
    /\ store \in {[a \in AnimeIds |-> IF a \in SessionIds THEN d ELSE NoDoc] :
                     d \in {NoDoc} \cup
                           {LocalOnlyItem(1, p[1], p[2]) :
                               p \in WatchStatus \X (0..(MaxEpisodes + 1))}}
    /\ remote = [a \in AnimeIds |-> NoEntry]
    /\ isBackgroundSyncing = FALSE
    /\ syncError = "null"
    /\ rendered = Current
    /\ syncs = <<>>
    /\ syncCap = MaxSyncCalls
    /\ lastStep = NoStep
    /\ prevItems = [valid |-> FALSE, items |-> <<>>]
    /\ commitTime = -1
    /\ failPending = FALSE
    /\ remoteEdits = 0
    /\ link = [NoLink EXCEPT !.storedToken = anilistToken]
    /\ isInitialSyncing = FALSE
    /\ watchlist = Watchlist(store)
    /\ cards = [watchlist |-> watchlist, syncingIds |-> {}]
    /\ syncingIds = {}
    /\ ops = <<>>
    /\ opsStarted = 0
    /\ opCap = 1
    /\ latest = [a \in AnimeIds |-> IF store[a] # NoDoc THEN "add" ELSE "none"]

RulesNext ==
    \/ Settled /\ \E a \in SessionIds : \E status \in WatchStatus : RecommendationStatus(a, status)
    \/ Settled /\ \E a \in SessionIds : \E change \in Changes : UpdateCall(a, change)
    \/ WatchlistSnapshot
    \/ RenderCards
    \/ \E i \in OpIds : OpSetDoc(i)
    \/ \E i \in OpIds : OpSave(i)
    \/ \E i \in OpIds : OpSetDoc2(i)

RulesSpec == RulesInit /\ [][RulesNext]_vars

\* A user with local items who links an account, lets the initial merge and
\* the background sync run, and then removes items, one at a time; no
\* request fails.
MergedInit ==
    /\ GwIdle
    /\ FriendsIdle
    /\ now = StartTime
    /\ lastSyncTimestamp = 0
    /\ store \in {[a \in AnimeIds |-> IF a \in S THEN LocalOnlyItem(a, "WATCHING", 1) ELSE NoDoc] :
                     S \in SUBSET AnimeIds}
    /\ remote \in {rm \in [AnimeIds -> UNION {RemoteEntryChoices(a) : a \in AnimeIds}] :
                      \A a \in AnimeIds : rm[a] \in RemoteEntryChoices(a)}
    /\ anilistProfile = "null"
    /\ anilistToken = "null"
    /\ isBackgroundSyncing = FALSE
    /\ syncError = "null"
    /\ rendered = Current
    /\ syncs = <<>>
    /\ syncCap = MaxSyncCalls
    /\ lastStep = NoStep
    /\ prevItems = [valid |-> FALSE, items |-> <<>>]
    /\ commitTime = -1
    /\ failPending = FALSE
    /\ remoteEdits = 0
    /\ link = [NoLink EXCEPT !.storedToken = anilistToken]
    /\ isInitialSyncing = FALSE
    /\ watchlist = Watchlist(store)
    /\ cards = [watchlist |-> watchlist, syncingIds |-> {}]
    /\ syncingIds = {}
    /\ ops = <<>>
    /\ opsStarted = 0
    /\ opCap = 1
    /\ latest = [a \in AnimeIds |-> IF store[a] # NoDoc THEN "add" ELSE "none"]
    /\ episodes = Catalogue

MergedNext ==
    \/ LinkStart
    \/ LinkVerifyOk
    \/ LinkTokenSaved
    \/ InitFetchOk
    \/ InitUploadOk
    \/ InitCommitOk
    \/ Render
    \/ \E i \in SyncCallIds : SyncFetchOk(i)
    \/ \E i \in SyncCallIds : SyncGetDocsOk(i)
    \/ \E i \in SyncCallIds : SyncCommitOk(i)
    \/ link.pc = "idle" /\ rendered = Current /\ Settled /\ \E a \in AnimeIds : RemoveButton(a)
    \/ WatchlistSnapshot
    \/ RenderCards
    \/ \E i \in OpIds : OpDeleteDoc(i)
    \/ \E i \in OpIds : OpDeleteRemote(i)

MergedSpec == MergedInit /\ [][MergedNext]_vars

\* ------------------------------------------------------- claims C1 and C2
\* The lists of the collection that are non-custom and carry a status the
\* service can map.
MainLists(lists) ==
    {i \in 1..Len(lists) :
        ~lists[i].isCustomList /\ lists[i].status \in KnownApiStatus}

ListHolds(list, a) == \E j \in 1..Len(list.entries) : list.entries[j].media = a

OccurringIds(lists) ==
    {a \in AnimeIds : \E i \in MainLists(lists) : ListHolds(lists[i], a)}

ResultIds(items) == {items[k].anime : k \in 1..Len(items)}

\* C1: the array getWatchlist returns holds exactly one entry per anime
\* identifier that occurs in at least one non-custom list with a mappable
\* status, and no identifier twice.
C1_OneEntryPerId ==
    gwPc = "returned" =>
        /\ ResultIds(gwResult) = OccurringIds(gwLists)
        /\ \A k, l \in 1..Len(gwResult) :
              gwResult[k].anime = gwResult[l].anime => k = l

\* An identifier that is in two main lists and twice in one of them, next to
\* one that is in no main list, has been reduced to a single entry.
C1_Witness ==
    /\ gwPc = "returned"
    /\ Len(gwResult) = 1
    /\ \E i, j \in MainLists(gwLists) : i # j /\ ListHolds(gwLists[i], 2) /\ ListHolds(gwLists[j], 2)
    /\ \E i \in 1..Len(gwLists) : ~(i \in MainLists(gwLists)) /\ ListHolds(gwLists[i], 1)
    /\ OccurringIds(gwLists) = {2}

\* The status of the highest-priority main list that holds the identifier.
BestListStatus(lists, a) ==
    LET holders == {i \in MainLists(lists) : ListHolds(lists[i], a)}
        best    == CHOOSE i \in holders :
                     \A k \in holders :
                        statusPriority(lists[i].status) <= statusPriority(lists[k].status)
    IN  mapApiStatusToWatchStatus(lists[best].status)

\* C2: an identifier that is in two or more status lists is kept with the
\* status of the higher-priority list (CURRENT, REPEATING, PAUSED, PLANNING,
\* COMPLETED, DROPPED), for every order of the lists and also with custom
\* lists or lists without a status among them.
C2_HigherPriorityStatus ==
    gwPc = "returned" =>
        \A k \in 1..Len(gwResult) :
            gwResult[k].status = BestListStatus(gwLists, gwResult[k].anime)

\* ------------------------------------------------------ claims C3 to C10
\* C3: a background sync that commits issues a delete for exactly the
\* identifiers of the snapshot it read that the remote list does not hold and
\* a set for every remote identifier; when no other writer wrote since the
\* snapshot, the store then holds exactly the remote identifiers.
C3_DeletesAndUpserts ==
    lastStep.kind = "background" =>
        /\ lastStep.deletes = StoreIds(lastStep.local) \ lastStep.remoteIds
        /\ ItemIds(lastStep.sets) = lastStep.remoteIds
        /\ \A a \in lastStep.remoteIds \ lastStep.deletes : store[a] # NoDoc
        /\ lastStep.quiet => StoreIds(store) = lastStep.remoteIds

\* A commit with no other writer that deleted a local-only document and
\* created the document of a remote-only entry.
C3_Witness ==
    /\ lastStep.kind = "background"
    /\ lastStep.quiet
    /\ lastStep.deletes # {}
    /\ \E a \in lastStep.remoteIds : lastStep.before[a] = NoDoc

\* The higher-priority of two statuses, in the order getWatchlist gives the
\* AniList statuses they stand for.
HigherPriority(s1, s2) ==
    IF statusPriority(mapWatchStatusToApiStatus(s1))
          <= statusPriority(mapWatchStatusToApiStatus(s2))
    THEN s1 ELSE s2

\* The positions of the remote list whose identifier the local list of the
\* merge holds with another status.
InBothWithDifferentStatus ==
    {k \in 1..Len(lastStep.items) :
        /\ lastStep.local[lastStep.items[k].anime] # NoDoc
        /\ lastStep.local[lastStep.items[k].anime].status # lastStep.items[k].status}

\* C4 as claimed: after a merge (background sync or initial merge) an
\* identifier that both lists hold with different statuses is kept in the
\* store with the higher-priority of the two statuses.
C4_KeepsHigherPriority ==
    lastStep.kind \in {"background", "initial"} =>
        \A k \in InBothWithDifferentStatus :
            LET item == lastStep.items[k]
            IN  /\ store[item.anime] # NoDoc
                /\ store[item.anime].status =
                      HigherPriority(lastStep.local[item.anime].status, item.status)

\* C4 as amended: after a merge (background sync or initial merge) an
\* identifier that both lists hold with different statuses is kept in the
\* store as the remote item, with the remote status, whatever the priorities.
C4_KeepsRemoteStatus ==
    lastStep.kind \in {"background", "initial"} =>
        \A k \in InBothWithDifferentStatus :
            /\ store[lastStep.items[k].anime] = lastStep.items[k]
            /\ store[lastStep.items[k].anime].status = lastStep.items[k].status

\* An initial merge that found an identifier in both lists, locally with the
\* higher-priority status.
C4_Witness ==
    /\ lastStep.kind = "initial"
    /\ \E k \in InBothWithDifferentStatus :
          HigherPriority(lastStep.local[lastStep.items[k].anime].status,
                         lastStep.items[k].status) # lastStep.items[k].status

\* C5: a background sync that commits right after another one, with the same
\* remote list and no other writer, issues no delete and leaves the store as
\* the first one left it.
C5_Idempotent ==
    (lastStep.kind = "background" /\ lastStep.second) =>
        /\ lastStep.deletes = {}
        /\ store = lastStep.before

\* A second commit in a row, of a list that is not empty, after a first one
\* that had something to delete.
C5_Witness ==
    /\ lastStep.kind = "background"
    /\ lastStep.second
    /\ lastStep.items # <<>>
    /\ StoreIds(store) # AnimeIds

\* C6: at most one call of syncAniListWatchlist is past its guards at a time
\* (a call made while another has not finished fetches and writes nothing).
C6_AtMostOneInFlight == Len(syncs) <= 1

\* C7: no call of syncAniListWatchlist gets past its guards after a failure
\* unless a visibility change, the interval or a change of profile came
\* since the failure.
C7_NoAttemptAfterFailure == \A i \in SyncCallIds : ~syncs[i].afterFail

\* The clock is within the debounce window of the last successful commit.
InWindow == commitTime >= 0 /\ now < commitTime + DEBOUNCE_MS

\* C8: a call of syncAniListWatchlist made within 60000 ms of a successful
\* commit starts no fetch, writes nothing to the store and leaves
\* isBackgroundSyncing and syncError alone; lastSyncTimestamp changes only in
\* a successful commit.
C8_Debounce ==
    [][ /\ (InWindow /\ (Visibility \/ Interval \/ Render)) =>
              UNCHANGED <<syncs, store, isBackgroundSyncing, syncError, lastSyncTimestamp>>
        /\ (lastSyncTimestamp' # lastSyncTimestamp) =>
              (\E i \in SyncCallIds : SyncCommitOk(i)) /\ lastSyncTimestamp' = now
      ]_vars

\* A call the debounce turned away half a window after the commit.
C8_Witness ==
    /\ lastStep.kind = "debounced"
    /\ InWindow
    /\ now > commitTime

\* C9: no two of the add, update and remove handlers await a request for
\* the same anime identifier at the same time.
C9_OneOperationPerId ==
    \A i, j \in OpIds : i # j => ops[i].anime # ops[j].anime

\* C10: when the initial merge has ended, every local-only item other than
\* the ones whose save failed has been uploaded.
C10_OthersProceed ==
    link.pc = "idle" => (link.toUpload \ link.failed) \subseteq link.uploaded

\* C11: a request of the add, remove or update handler or of the background
\* sync that rejects is caught in the handler: the step that ends the handler
\* leaves syncError a string and the flag of the handler cleared (the
\* identifier out of syncingIds, isBackgroundSyncing false), and no flag
\* stays set without a handler in flight.
C11_FailuresCaught ==
    /\ lastStep.kind = "opFailed" =>
          syncError # "null" /\ ~(lastStep.anime \in syncingIds)
    /\ lastStep.kind = "syncFailed" =>
          syncError # "null" /\ ~isBackgroundSyncing
    /\ syncingIds \subseteq {ops[i].anime : i \in OpIds}
    /\ isBackgroundSyncing => Len(syncs) > 0

\* A handler failed at its AniList request with no error shown before, and
\* so did a sync.
C11_Witness ==
    \/ lastStep.kind = "opFailed" /\ store[lastStep.anime] # NoDoc /\ latest[lastStep.anime] = "add"
    \/ lastStep.kind = "syncFailed" /\ opsStarted > 0

\* C12: with no AniList account linked and no failing request, whatever the
\* adds, status changes, progress updates and removes made one after the
\* other, the store holds at most one entry per identifier, and holds an
\* entry for an identifier exactly when the last add or remove called for it
\* was an add: an edit creates no entry.
C12_EntryIffLastWasAdd ==
    /\ \A a \in AnimeIds :
         /\ (store[a] # NoDoc) <=> (latest[a] = "add")
         /\ store[a] # NoDoc => store[a].anime = a
    /\ \A k, l \in 1..Len(watchlist) :
         k # l => watchlist[k].anime # watchlist[l].anime

\* The update handler was called for an anime whose entry a remove had
\* deleted.
C12_Witness ==
    /\ lastStep.kind = "returned"
    /\ latest[lastStep.anime] = "remove"
    /\ store[lastStep.anime] = NoDoc

\* C13: in every state reached by respondToFriendRequest (accepting or
\* declining) and removeFriend calls of any of the users, user b is in the
\* friends of user a exactly when user a is in the friends of user b.
C13_Bidirectional ==
    \A a, b \in Uids : (b \in FriendsOf(a)) <=> (a \in FriendsOf(b))

\* Two users became friends by an acceptance while a removal between them
\* was still awaited.
C13_Witness ==
    \E call \in social.calls :
        /\ call.kind = "remove"
        /\ call.other \in FriendsOf(call.uid)
        /\ \E other \in social.calls : other.kind = "accept"

\* An initial merge just committed with no background sync awaited or
\* committed since the form was submitted, on the store the form had read.
MergedAlone ==
    /\ lastStep.kind = "initial"
    /\ syncs = <<>>
    /\ lastSyncTimestamp = 0
    /\ lastStep.before = lastStep.local

\* C14: when handleInitialSync succeeds on the local list L and the remote
\* list R with no other sync in between, every identifier of L that R did not
\* hold is on AniList with its local status and progress, every entry of R
\* is in the store, and the store holds every identifier of L.
C14_MergePromise ==
    MergedAlone =>
        /\ \A a \in StoreIds(lastStep.local) \ lastStep.remoteIds :
              remote[a] = RemoteEntry(a, mapWatchStatusToApiStatus(lastStep.local[a].status),
                                      lastStep.local[a].watchedEpisodes)
        /\ \A a \in lastStep.remoteIds :
              \E k \in 1..Len(lastStep.items) :
                  lastStep.items[k].anime = a /\ store[a] = lastStep.items[k]
        /\ StoreIds(lastStep.local) \subseteq StoreIds(store)

\* A merge alone of a local list with an item AniList did not hold, into a
\* remote list that held entries.
C14_Witness ==
    /\ MergedAlone
    /\ StoreIds(lastStep.local) \ lastStep.remoteIds # {}
    /\ lastStep.remoteIds # {}

\* The item the handler of the step just taken found, its anime's episode
\* count and the progress the step stored.
StepItem == lastStep.before[lastStep.anime]
StepEpisodes == Episodes(lastStep.anime)
StepProgress == store[lastStep.anime].watchedEpisodes

\* C15: a write of handleUpdateWatchedEpisodes, whatever the change, leaves
\* a progress from 0 to the episode count, which is known; a call for an
\* anime that is not in the watchlist or whose episode count is unknown
\* writes nothing and sends nothing to AniList.
C15_ProgressInRange ==
    /\ lastStep.kind \in {"update", "updateSaved"} =>
          /\ Known(StepEpisodes)
          /\ StepItem # NoDoc
          /\ 0 <= StepProgress /\ StepProgress <= StepEpisodes
    /\ lastStep.kind = "returned" =>
          /\ StepItem = NoDoc \/ ~Known(StepEpisodes)
          /\ store = lastStep.before
          /\ ops = <<>>
          /\ syncingIds = {}

\* An update brought a progress above the episode count back to it, and a
\* call for an item in the watchlist returned because the episode count is
\* unknown.
C15_Witness ==
    \/ /\ lastStep.kind = "update"
       /\ StepItem.watchedEpisodes > StepEpisodes
    \/ /\ lastStep.kind = "returned"
       /\ StepItem # NoDoc

\* The status the rules of the claim give for the current status s, the
\* clamped progress n and the episode count e.
StatusByRules(s, n, e) ==
    IF n = e THEN "COMPLETED"
    ELSE IF n > 0 /\ ~(s \in {"PAUSED", "DROPPED"}) THEN "WATCHING"
    ELSE IF s = "COMPLETED" /\ n < e THEN "WATCHING"
    ELSE s

\* C16: the status handleUpdateWatchedEpisodes stores follows from the
\* clamped progress n and the episode count E by these rules in order: n = E
\* gives Completed; else n > 0 with a status other than Paused and Dropped
\* gives Watching; else Completed with n < E gives Watching; else the status
\* stays.  So Paused and Dropped stay whenever E is not reached, and Plan to
\* Watch stays only at n = 0.
C16_StatusRules ==
    /\ lastStep.kind = "update" =>
          LET s   == StepItem.status
              new == store[lastStep.anime].status
          IN  /\ new = StatusByRules(s, StepProgress, StepEpisodes)
              /\ (s \in {"PAUSED", "DROPPED"} /\ StepProgress # StepEpisodes) => new = s
              /\ (s = "PLAN_TO_WATCH" /\ new = s) => StepProgress = 0
    /\ lastStep.kind = "updateSaved" =>
          store[lastStep.anime].status = StepItem.status

\* An update took a paused item to its last episode, and another took a
\* completed item back to no episode.
C16_Witness ==
    /\ lastStep.kind = "update"
    /\ \/ StepItem.status = "PAUSED" /\ store[lastStep.anime].status = "COMPLETED"
       \/ StepItem.status = "COMPLETED" /\ StepProgress = 0
                                        /\ store[lastStep.anime].status = "WATCHING"

\* The progress the rules of the claim give for the status chosen, the item
\* found (NoDoc when absent) and the episode count e.
ProgressByRules(status, existing, e) ==
    LET kept == IF existing = NoDoc THEN 0 ELSE existing.watchedEpisodes
    IN  IF status = "COMPLETED" /\ Known(e) /\ e # 0 THEN e
        ELSE IF /\ status = "WATCHING"
                /\ (existing = NoDoc \/ existing.status # "WATCHING")
                /\ kept = 0
                /\ e # 0 THEN 1
        ELSE IF status = "PLAN_TO_WATCH" THEN 0
        ELSE kept

\* C17: the progress handleAddToWatchlist stores follows these rules in
\* order: Completed with a known episode count other than 0 stores the
\* episode count; else a change into Watching from an item that was absent
\* or not Watching, with progress 0 and an episode count other than 0,
\* stores 1; else Plan to Watch stores 0; else the progress of the item is
\* kept, 0 for a new item.
C17_ProgressRules ==
    lastStep.kind = "add" =>
        /\ store[lastStep.anime] # NoDoc
        /\ StepProgress = ProgressByRules(store[lastStep.anime].status, StepItem,
                                          StepEpisodes)

\* An add of a new item as Watching stored 1, and an add as Completed of an
\* anime without a known episode count kept the progress.
C17_Witness ==
    /\ lastStep.kind = "add"
    /\ \/ StepItem = NoDoc /\ store[lastStep.anime].status = "WATCHING" /\ StepProgress = 1
       \/ /\ store[lastStep.anime].status = "COMPLETED"
          /\ ~Known(StepEpisodes)
          /\ StepItem # NoDoc /\ StepProgress = StepItem.watchedEpisodes

\* C18: with no AniList account linked, whatever the calls of
\* handleAddToWatchlist and handleUpdateWatchedEpisodes, an item of an anime
\* with a known episode count E above 0 that is Completed has watchedEpisodes
\* = E, and one that is Plan to Watch has watchedEpisodes = 0.
C18_StatusFixesProgress ==
    \A a \in StoreIds(store) :
        (Known(Episodes(a)) /\ Episodes(a) > 0) =>
            /\ store[a].status = "COMPLETED" => store[a].watchedEpisodes = Episodes(a)
            /\ store[a].status = "PLAN_TO_WATCH" => store[a].watchedEpisodes = 0

\* An update took every episode off a completed item, and an add set an item
\* with episodes watched to Plan to Watch.
C18_Witness ==
    /\ lastStep.kind \in {"update", "add"}
    /\ Known(StepEpisodes) /\ StepEpisodes > 0
    /\ \/ /\ lastStep.kind = "update"
          /\ StepItem.status = "COMPLETED"
          /\ StepProgress = 0
       \/ /\ lastStep.kind = "add"
          /\ StepItem # NoDoc /\ StepItem.watchedEpisodes > 0
          /\ store[lastStep.anime].status = "PLAN_TO_WATCH"

\* C19: a background sync that commits while the initial merge runs
\* (isInitialSyncing true) deletes from the store no item that the merge
\* found in the local list only.
C19_MergeKeepsLocalOnly ==
    (lastStep.kind = "background" /\ isInitialSyncing) =>
        \A a \in link.toUpload :
            lastStep.before[a] # NoDoc => store[a] # NoDoc

\* C20: whatever the interleaving of an add or an update with a remove or a
\* background sync of the same identifier, every document of the watchlist
\* collection is a complete item: the anime record of its identifier, a
\* status and watchedEpisodes.
C20_CompleteDocuments ==
    \A a \in StoreIds(store) :
        /\ store[a].anime = a
        /\ store[a].status \in WatchStatus
        /\ store[a].watchedEpisodes >= 0

\* C21: with an account linked, when handleRemoveFromWatchlist has run to its
\* end without an error for an anime, the anime is in neither the local store
\* nor the AniList list, also when its item had no mediaListId.
C21_RemovedEverywhere ==
    lastStep.kind = "removed" =>
        /\ store[lastStep.anime] = NoDoc
        /\ remote[lastStep.anime] = NoEntry

\* C22: the step in which a background sync fails, at the fetch, at the read
\* of the store or at the commit, leaves the store and lastSyncTimestamp as
\* they were, sets syncError to the auto-sync message and isBackgroundSyncing
\* to false; a commit that failed with no other writer since its read leaves
\* the store as that read found it, with none of its sets or deletes applied.
C22_FailedSyncWritesNothing ==
    [][ \A i \in SyncCallIds :
          (lastStep'.kind = "syncFailed" /\ syncs' = Without(syncs, i)) =>
             /\ store' = store
             /\ (syncs[i].pc = "commit" /\ syncs[i].quiet) => store' = syncs[i].snapshot
             /\ lastSyncTimestamp' = lastSyncTimestamp
             /\ syncError' = "Auto-sync failed"
             /\ isBackgroundSyncing' = FALSE
      ]_vars

\* A commit failed whose batch held a set and a delete, and the store still
\* holds the document the batch would have deleted.
C22_Witness ==
    /\ lastStep.kind = "syncFailed"
    /\ lastStep.sets # <<>>
    /\ \E a \in lastStep.deletes : store[a] # NoDoc
    /\ ~isBackgroundSyncing

\* C23: an anime identifier is in syncingIds exactly while an add, a remove
\* or an update for it has started and not finished, also when two of them
\* on the same identifier overlap.
C23_FlagsMirrorOperations ==
    syncingIds = {ops[i].anime : i \in OpIds}

\* C24: when a call of linkAnilist has ended after getViewerProfile rejected
\* the token, it returned null, the profile, the stored token and the token
\* of userProfile are null and the error is set; when it has ended after the
\* verification succeeded, the stored token, the token of userProfile and
\* the profile are all set.
C24_TokenOnlyAfterVerified ==
    /\ link.verified = "none" => link.returned = "none"
    /\ (link.returned # "none" /\ link.verified = "rejected") =>
          /\ link.returned = "null"
          /\ anilistProfile = "null"
          /\ link.storedToken = "null"
          /\ anilistToken = "null"
          /\ link.authError = "Failed to link AniList account"
    /\ (link.returned # "none" /\ link.verified = "ok") =>
          /\ link.storedToken = "token"
          /\ anilistToken = "token"
          /\ anilistProfile = "viewer"

=============================================================================
